---- MODULE Spec2Model ----
(***************************************************************************)
(* Error management of the parser-combinator engine (src/error.rs): the    *)
(* ErrorKind taxonomy, the ParseError / ContextError / FromExternalError   *)
(* capabilities, the default error type Error<I> and the context           *)
(* combinator.                                                             *)
(*                                                                         *)
(* Representation.  An ErrorKind is its discriminant (declaration order).  *)
(* The input buffer is a string; a borrowed position (&str, a slice of the *)
(* buffer running to its end) is the offset at which it starts, an owned   *)
(* position (String) is a string of its own.  An error value is a record   *)
(* tagged with the error type it belongs to:                               *)
(*   "Error"    the default Error<I>            [input, code]              *)
(*   "Tuple"    the legacy (I, ErrorKind)       [input, code]              *)
(*   "Unit"     the unit type ()                                          *)
(*   "CtxError" the error type of context_test  [input, ctx]               *)
(***************************************************************************)
EXTENDS Integers, Sequences, FiniteSets, TLC

\* Bounds of the model
MaxLen == 2        \* length of the longest input buffer
MaxKinds == 3      \* kinds the outer combinators and wrapped steps draw from
MaxHops == 2       \* combinator boundaries one error is carried across
MaxNest == 2       \* depth of nested context combinators

Alphabet == {"a", "b"}
Labels == {"ctx", "outer"}

\* enum ErrorKind: the variants by discriminant, in declaration order
Tag == 0
MapRes == 1
MapOpt == 2
Alt == 3
IsNot == 4
IsA == 5
SeparatedList == 6
SeparatedNonEmptyList == 7
Many0 == 8
Many1 == 9
ManyTill == 10
Count == 11
TakeUntil == 12
LengthValue == 13
TagClosure == 14
Alpha == 15
Digit == 16
HexDigit == 17
OctDigit == 18
BinDigit == 19
AlphaNumeric == 20
Space == 21
MultiSpace == 22
LengthValueFn == 23
Eof == 24
Switch == 25
TagBits == 26
OneOf == 27
NoneOf == 28
Char == 29
CrLf == 30
RegexpMatch == 31
RegexpMatches == 32
RegexpFind == 33
RegexpCapture == 34
RegexpCaptures == 35
TakeWhile1 == 36
Complete == 37
Fix == 38
Escaped == 39
EscapedTransform == 40
NonEmpty == 41
ManyMN == 42
Not == 43
Permutation == 44
Verify == 45
TakeTill1 == 46
TakeWhileMN == 47
TooLarge == 48
Many0Count == 49
Many1Count == 50
Float == 51
Satisfy == 52
Fail == 53
Many == 54
Fold == 55
Precedence == 56


\* #[derive(Debug)] on ErrorKind: the variant's identifier, by discriminant
VariantNames ==
  <<
  "Tag", "MapRes", "MapOpt", "Alt", "IsNot", "IsA", "SeparatedList",
  "SeparatedNonEmptyList", "Many0", "Many1", "ManyTill", "Count", "TakeUntil",
  "LengthValue", "TagClosure", "Alpha", "Digit", "HexDigit", "OctDigit", "BinDigit",
  "AlphaNumeric", "Space", "MultiSpace", "LengthValueFn", "Eof", "Switch", "TagBits",
  "OneOf", "NoneOf", "Char", "CrLf", "RegexpMatch", "RegexpMatches", "RegexpFind",
  "RegexpCapture", "RegexpCaptures", "TakeWhile1", "Complete", "Fix", "Escaped",
  "EscapedTransform", "NonEmpty", "ManyMN", "Not", "Permutation", "Verify", "TakeTill1",
  "TakeWhileMN", "TooLarge", "Many0Count", "Many1Count", "Float", "Satisfy", "Fail",
  "Many", "Fold", "Precedence"
  >>

ErrorKind == 0 .. (Len(VariantNames) - 1)

Debug(kind) == VariantNames[kind + 1]

\* Converts an ErrorKind to a number
\* (faulty variant: BinDigit given HexDigit's code)
error_to_u32_reused(e) ==
  CASE e = Tag                    -> 1
    [] e = MapRes                 -> 2
    [] e = MapOpt                 -> 3
    [] e = Alt                    -> 4
    [] e = IsNot                  -> 5
    [] e = IsA                    -> 6
    [] e = SeparatedList          -> 7
    [] e = SeparatedNonEmptyList  -> 8
    [] e = Many1                  -> 9
    [] e = Count                  -> 10
    [] e = TakeUntil              -> 12
    [] e = LengthValue            -> 15
    [] e = TagClosure             -> 16
    [] e = Alpha                  -> 17
    [] e = Digit                  -> 18
    [] e = AlphaNumeric           -> 19
    [] e = Space                  -> 20
    [] e = MultiSpace             -> 21
    [] e = LengthValueFn          -> 22
    [] e = Eof                    -> 23
    [] e = Switch                 -> 27
    [] e = TagBits                -> 28
    [] e = OneOf                  -> 29
    [] e = NoneOf                 -> 30
    [] e = Char                   -> 40
    [] e = CrLf                   -> 41
    [] e = RegexpMatch            -> 42
    [] e = RegexpMatches          -> 43
    [] e = RegexpFind             -> 44
    [] e = RegexpCapture          -> 45
    [] e = RegexpCaptures         -> 46
    [] e = TakeWhile1             -> 47
    [] e = Complete               -> 48
    [] e = Fix                    -> 49
    [] e = Escaped                -> 50
    [] e = EscapedTransform       -> 51
    [] e = NonEmpty               -> 56
    [] e = ManyMN                 -> 57
    [] e = HexDigit               -> 59
    [] e = OctDigit               -> 61
    [] e = Many0                  -> 62
    [] e = Not                    -> 63
    [] e = Permutation            -> 64
    [] e = ManyTill               -> 65
    [] e = Verify                 -> 66
    [] e = TakeTill1              -> 67
    [] e = TakeWhileMN            -> 69
    [] e = TooLarge               -> 70
    [] e = Many0Count             -> 71
    [] e = Many1Count             -> 72
    [] e = Float                  -> 73
    [] e = Satisfy                -> 74
    [] e = Fail                   -> 75
    [] e = Many                   -> 76
    [] e = Fold                   -> 77
    [] e = BinDigit               -> 59
    [] e = Precedence             -> 79

error_to_u32(e) ==
  CASE e = Tag                    -> 1
    [] e = MapRes                 -> 2
    [] e = MapOpt                 -> 3
    [] e = Alt                    -> 4
    [] e = IsNot                  -> 5
    [] e = IsA                    -> 6
    [] e = SeparatedList          -> 7
    [] e = SeparatedNonEmptyList  -> 8
    [] e = Many1                  -> 9
    [] e = Count                  -> 10
    [] e = TakeUntil              -> 12
    [] e = LengthValue            -> 15
    [] e = TagClosure             -> 16
    [] e = Alpha                  -> 17
    [] e = Digit                  -> 18
    [] e = AlphaNumeric           -> 19
    [] e = Space                  -> 20
    [] e = MultiSpace             -> 21
    [] e = LengthValueFn          -> 22
    [] e = Eof                    -> 23
    [] e = Switch                 -> 27
    [] e = TagBits                -> 28
    [] e = OneOf                  -> 29
    [] e = NoneOf                 -> 30
    [] e = Char                   -> 40
    [] e = CrLf                   -> 41
    [] e = RegexpMatch            -> 42
    [] e = RegexpMatches          -> 43
    [] e = RegexpFind             -> 44
    [] e = RegexpCapture          -> 45
    [] e = RegexpCaptures         -> 46
    [] e = TakeWhile1             -> 47
    [] e = Complete               -> 48
    [] e = Fix                    -> 49
    [] e = Escaped                -> 50
    [] e = EscapedTransform       -> 51
    [] e = NonEmpty               -> 56
    [] e = ManyMN                 -> 57
    [] e = HexDigit               -> 59
    [] e = OctDigit               -> 61
    [] e = Many0                  -> 62
    [] e = Not                    -> 63
    [] e = Permutation            -> 64
    [] e = ManyTill               -> 65
    [] e = Verify                 -> 66
    [] e = TakeTill1              -> 67
    [] e = TakeWhileMN            -> 69
    [] e = TooLarge               -> 70
    [] e = Many0Count             -> 71
    [] e = Many1Count             -> 72
    [] e = Float                  -> 73
    [] e = Satisfy                -> 74
    [] e = Fail                   -> 75
    [] e = Many                   -> 76
    [] e = Fold                   -> 77
    [] e = BinDigit               -> 78
    [] e = Precedence             -> 79

\* Converts an ErrorKind to a text description
\* (faulty variant: ManyMN described with the text of Many)
description_shared(e) ==
  CASE e = Tag                    -> "Tag"
    [] e = MapRes                 -> "Map on Result"
    [] e = MapOpt                 -> "Map on Option"
    [] e = Alt                    -> "Alternative"
    [] e = IsNot                  -> "IsNot"
    [] e = IsA                    -> "IsA"
    [] e = SeparatedList          -> "Separated list"
    [] e = SeparatedNonEmptyList  -> "Separated non empty list"
    [] e = Many0                  -> "Many0"
    [] e = Many1                  -> "Many1"
    [] e = Count                  -> "Count"
    [] e = TakeUntil              -> "Take until"
    [] e = LengthValue            -> "Length followed by value"
    [] e = TagClosure             -> "Tag closure"
    [] e = Alpha                  -> "Alphabetic"
    [] e = Digit                  -> "Digit"
    [] e = AlphaNumeric           -> "AlphaNumeric"
    [] e = Space                  -> "Space"
    [] e = MultiSpace             -> "Multiple spaces"
    [] e = LengthValueFn          -> "LengthValueFn"
    [] e = Eof                    -> "End of file"
    [] e = Switch                 -> "Switch"
    [] e = TagBits                -> "Tag on bitstream"
    [] e = OneOf                  -> "OneOf"
    [] e = NoneOf                 -> "NoneOf"
    [] e = Char                   -> "Char"
    [] e = CrLf                   -> "CrLf"
    [] e = RegexpMatch            -> "RegexpMatch"
    [] e = RegexpMatches          -> "RegexpMatches"
    [] e = RegexpFind             -> "RegexpFind"
    [] e = RegexpCapture          -> "RegexpCapture"
    [] e = RegexpCaptures         -> "RegexpCaptures"
    [] e = TakeWhile1             -> "TakeWhile1"
    [] e = Complete               -> "Complete"
    [] e = Fix                    -> "Fix"
    [] e = Escaped                -> "Escaped"
    [] e = EscapedTransform       -> "EscapedTransform"
    [] e = NonEmpty               -> "NonEmpty"
    [] e = ManyMN                 -> "Many"
    [] e = HexDigit               -> "Hexadecimal Digit"
    [] e = OctDigit               -> "Octal digit"
    [] e = BinDigit               -> "Binary digit"
    [] e = Not                    -> "Negation"
    [] e = Permutation            -> "Permutation"
    [] e = ManyTill               -> "ManyTill"
    [] e = Verify                 -> "predicate verification"
    [] e = TakeTill1              -> "TakeTill1"
    [] e = TakeWhileMN            -> "TakeWhileMN"
    [] e = TooLarge               -> "Needed data size is too large"
    [] e = Many0Count             -> "Count occurrence of >=0 patterns"
    [] e = Many1Count             -> "Count occurrence of >=1 patterns"
    [] e = Float                  -> "Float"
    [] e = Satisfy                -> "Satisfy"
    [] e = Fail                   -> "Fail"
    [] e = Many                   -> "Many"
    [] e = Fold                   -> "Fold"
    [] e = Precedence             -> "Precedence"

description(e) ==
  CASE e = Tag                    -> "Tag"
    [] e = MapRes                 -> "Map on Result"
    [] e = MapOpt                 -> "Map on Option"
    [] e = Alt                    -> "Alternative"
    [] e = IsNot                  -> "IsNot"
    [] e = IsA                    -> "IsA"
    [] e = SeparatedList          -> "Separated list"
    [] e = SeparatedNonEmptyList  -> "Separated non empty list"
    [] e = Many0                  -> "Many0"
    [] e = Many1                  -> "Many1"
    [] e = Count                  -> "Count"
    [] e = TakeUntil              -> "Take until"
    [] e = LengthValue            -> "Length followed by value"
    [] e = TagClosure             -> "Tag closure"
    [] e = Alpha                  -> "Alphabetic"
    [] e = Digit                  -> "Digit"
    [] e = AlphaNumeric           -> "AlphaNumeric"
    [] e = Space                  -> "Space"
    [] e = MultiSpace             -> "Multiple spaces"
    [] e = LengthValueFn          -> "LengthValueFn"
    [] e = Eof                    -> "End of file"
    [] e = Switch                 -> "Switch"
    [] e = TagBits                -> "Tag on bitstream"
    [] e = OneOf                  -> "OneOf"
    [] e = NoneOf                 -> "NoneOf"
    [] e = Char                   -> "Char"
    [] e = CrLf                   -> "CrLf"
    [] e = RegexpMatch            -> "RegexpMatch"
    [] e = RegexpMatches          -> "RegexpMatches"
    [] e = RegexpFind             -> "RegexpFind"
    [] e = RegexpCapture          -> "RegexpCapture"
    [] e = RegexpCaptures         -> "RegexpCaptures"
    [] e = TakeWhile1             -> "TakeWhile1"
    [] e = Complete               -> "Complete"
    [] e = Fix                    -> "Fix"
    [] e = Escaped                -> "Escaped"
    [] e = EscapedTransform       -> "EscapedTransform"
    [] e = NonEmpty               -> "NonEmpty"
    [] e = ManyMN                 -> "Many(m, n)"
    [] e = HexDigit               -> "Hexadecimal Digit"
    [] e = OctDigit               -> "Octal digit"
    [] e = BinDigit               -> "Binary digit"
    [] e = Not                    -> "Negation"
    [] e = Permutation            -> "Permutation"
    [] e = ManyTill               -> "ManyTill"
    [] e = Verify                 -> "predicate verification"
    [] e = TakeTill1              -> "TakeTill1"
    [] e = TakeWhileMN            -> "TakeWhileMN"
    [] e = TooLarge               -> "Needed data size is too large"
    [] e = Many0Count             -> "Count occurrence of >=0 patterns"
    [] e = Many1Count             -> "Count occurrence of >=1 patterns"
    [] e = Float                  -> "Float"
    [] e = Satisfy                -> "Satisfy"
    [] e = Fail                   -> "Fail"
    [] e = Many                   -> "Many"
    [] e = Fold                   -> "Fold"
    [] e = Precedence             -> "Precedence"

VARIABLES
  buffer,   \* the input buffer the borrowed positions point into
  call,     \* the operation invoked last, with its arguments
  ret,      \* the value it returned: the value now in flight
  log,      \* the add_context invocations made by that operation, in order
  origin,   \* the error as first constructed (or surfaced by the last alternation branch)
  hops      \* combinator boundaries the error in flight has crossed

vars == <<buffer, call, ret, log, origin, hops>>

Nothing == [ty |-> "None"]
ErrTypes == {"Error", "Tuple", "Unit", "CtxError"}

----------------------------------------------------------------------------
\* struct Error<I> { input, code } and Error::new
Error_new(input, code) == [ty |-> "Error", input |-> input, code |-> code]

\* impl<I> ParseError<I> for Error<I>
\* (faulty variant: the kind replaced by a fixed one)
Error_from_error_kind_char(input, kind) == [ty |-> "Error", input |-> input, code |-> Char]

Error_from_error_kind(input, kind) == [ty |-> "Error", input |-> input, code |-> kind]

\* (faulty variant: the outer position and kind replace the previous error)
Error_append_outer(input, kind, other) == [ty |-> "Error", input |-> input, code |-> kind]

Error_append(input, kind, other) == other

\* impl<I> ParseError<I> for (I, ErrorKind)
Tuple_from_error_kind(input, kind) == [ty |-> "Tuple", input |-> input, code |-> kind]

Tuple_append(input, kind, other) == other

\* impl<I> ParseError<I> for ()
Unit_from_error_kind(input, kind) == [ty |-> "Unit"]

Unit_append(input, kind, other) == [ty |-> "Unit"]

\* tests::context_test: struct Error<I> { input, ctx: Option<&'static str> };
\* an Option is a sequence of at most one element
CtxError_from_error_kind(input, kind) == [ty |-> "CtxError", input |-> input, ctx |-> <<>>]

CtxError_append(input, kind, other) == [ty |-> "CtxError", input |-> input, ctx |-> other.ctx]

CtxError_add_context(input, ctx, other) == [ty |-> "CtxError", input |-> input, ctx |-> <<ctx>>]

\* trait ParseError<I>, dispatched on the implementing type E
from_error_kind(E, input, kind) ==
  CASE E = "Error"    -> Error_from_error_kind(input, kind)
    [] E = "Tuple"    -> Tuple_from_error_kind(input, kind)
    [] E = "Unit"     -> Unit_from_error_kind(input, kind)
    [] E = "CtxError" -> CtxError_from_error_kind(input, kind)

append(E, input, kind, other) ==
  CASE E = "Error"    -> Error_append(input, kind, other)
    [] E = "Tuple"    -> Tuple_append(input, kind, other)
    [] E = "Unit"     -> Unit_append(input, kind, other)
    [] E = "CtxError" -> CtxError_append(input, kind, other)

\* default method: fn from_char(input, _) { Self::from_error_kind(input, ErrorKind::Char) }
from_char(E, input, c) == from_error_kind(E, input, Char)

\* default method: fn or(self, other) { other }; no implementation overrides it
\* (faulty variant: the earlier branch wins)
or_first(self, other) == self

or(self, other) == other

\* trait ContextError<I>: default method fn add_context(_input, _ctx, other) { other }
\* (faulty variant: the default error is re-anchored at the annotated position)
ContextError_add_context_anchored(input, ctx, other) ==
  IF other.ty = "Error" THEN [other EXCEPT !.input = input] ELSE other

ContextError_add_context(input, ctx, other) == other

\* add_context, dispatched on the implementing type: only the test's type overrides it
add_context(E, input, ctx, other) ==
  CASE E = "CtxError" -> CtxError_add_context(input, ctx, other)
    [] OTHER          -> ContextError_add_context(input, ctx, other)

\* impl<I, E> FromExternalError<I, E> for Error<I>, (I, ErrorKind) and ()
\* (faulty variant: the foreign error is kept in the record)
Error_from_external_error_kept(input, kind, e) ==
  [ty |-> "Error", input |-> input, code |-> kind, source |-> e]

Error_from_external_error(input, kind, e) == [ty |-> "Error", input |-> input, code |-> kind]

Tuple_from_external_error(input, kind, e) == [ty |-> "Tuple", input |-> input, code |-> kind]

Unit_from_external_error(input, kind, e) == [ty |-> "Unit"]

from_external_error(E, input, kind, e) ==
  CASE E = "Error" -> Error_from_external_error(input, kind, e)
    [] E = "Tuple" -> Tuple_from_external_error(input, kind, e)
    [] E = "Unit"  -> Unit_from_external_error(input, kind, e)

\* pub fn make_error / pub fn append_error: forwarders to the trait methods
make_error(E, input, kind) == from_error_kind(E, input, kind)

append_error(E, input, kind, other) == append(E, input, kind, other)

----------------------------------------------------------------------------
\* What a borrowed position refers to: the slice of the buffer from its offset on
Slice(input) == SubSeq(buffer, input + 1, Len(buffer))

\* *input for a reference to one element of the buffer
Deref(input) == SubSeq(buffer, input + 1, input + 1)

\* <str as ToOwned>::to_owned / <[u8] as ToOwned>::to_owned: a fresh allocation
\* filled with the elements of the slice, one by one
RECURSIVE CopyFrom(_, _)
CopyFrom(s, i) == IF i > Len(s) THEN "" ELSE SubSeq(s, i, i) \o CopyFrom(s, i + 1)

\* (faulty variant: the whole buffer is copied, whatever the offset)
to_owned_whole(input) == CopyFrom(buffer, 1)

to_owned(input) == CopyFrom(buffer, input + 1)

\* impl<I: fmt::Display> fmt::Display for Error<I>:
\*   write!(f, "error {:?} at: {}", self.code, self.input)
\* (faulty variant: a colon after error, and the description for the kind)
Error_fmt_described(self) == "error: " \o description(self.code) \o " at: " \o Slice(self.input)

Error_fmt(self) == "error " \o Debug(self.code) \o " at: " \o Slice(self.input)

\* Error<&I>::cloned and Error<&mut I>::cloned
Error_cloned(self) == [ty |-> "Error", input |-> to_owned(self.input), code |-> self.code]

\* Error<&I>::copied and Error<&mut I>::copied
Error_copied(self) == [ty |-> "Error", input |-> Deref(self.input), code |-> self.code]

\* From<Error<&[u8]>> for Error<Vec<u8>> and From<Error<&str>> for Error<String>
Error_from(value) == [ty |-> "Error", input |-> to_owned(value.input), code |-> value.code]

----------------------------------------------------------------------------
\* The four outcomes of a parsing step (PResult)
Ok(rest, output) == [tag |-> "Ok", rest |-> rest, output |-> output]
Err_Incomplete(needed) == [tag |-> "Incomplete", needed |-> needed]
Err_Error(e) == [tag |-> "Error", e |-> e]
Err_Failure(e) == [tag |-> "Failure", e |-> e]

\* pub fn context(context, parser) -> Context<F>;  struct Context<F> { context, parser }
context(ctx, parser) == [p |-> "context", context |-> ctx, parser |-> parser]

\* A wrapped step F that is not itself a context combinator: any parser of the
\* engine, given by the outcome it returns on the input it is run on
step(outcome) == [p |-> "step", returns |-> outcome]

\* One add_context invocation, as recorded in the log
Invocation(input, ctx, other) == [input |-> input, ctx |-> ctx, other |-> other]

RECURSIVE Parser_process(_, _)

\* (faulty variants of Context::process: the label anchored where the inner
\* failure occurred; a failure downgraded to an error; the remaining input of a
\* success rewound to the pre-attempt position)
Context_process_at_failure(self, input) ==
  LET r  == Parser_process(self.parser, input)
      at == IF r.out.e.ty = "Unit" THEN input ELSE r.out.e.input
  IN  CASE r.out.tag = "Error" ->
             [out   |-> Err_Error(add_context(r.out.e.ty, at, self.context, r.out.e)),
              calls |-> Append(r.calls, Invocation(at, self.context, r.out.e))]
        [] r.out.tag = "Failure" ->
             [out   |-> Err_Failure(add_context(r.out.e.ty, input, self.context, r.out.e)),
              calls |-> Append(r.calls, Invocation(input, self.context, r.out.e))]
        [] OTHER -> r

Context_process_downgraded(self, input) ==
  LET r == Parser_process(self.parser, input)
  IN  CASE r.out.tag \in {"Error", "Failure"} ->
             [out   |-> Err_Error(add_context(r.out.e.ty, input, self.context, r.out.e)),
              calls |-> Append(r.calls, Invocation(input, self.context, r.out.e))]
        [] OTHER -> r

Context_process_rewound(self, input) ==
  LET r == Parser_process(self.parser, input)
  IN  CASE r.out.tag = "Error" ->
             [out   |-> Err_Error(add_context(r.out.e.ty, input, self.context, r.out.e)),
              calls |-> Append(r.calls, Invocation(input, self.context, r.out.e))]
        [] r.out.tag = "Failure" ->
             [out   |-> Err_Failure(add_context(r.out.e.ty, input, self.context, r.out.e)),
              calls |-> Append(r.calls, Invocation(input, self.context, r.out.e))]
        [] r.out.tag = "Ok" -> [out |-> Ok(input, r.out.output), calls |-> r.calls]
        [] OTHER -> r

\* (faulty variant: an error some inner context already annotated is passed on as it is)
Context_process_once(self, input) ==
  LET r == Parser_process(self.parser, input)
  IN  CASE r.out.tag = "Error" /\ r.calls = <<>> ->
             [out   |-> Err_Error(add_context(r.out.e.ty, input, self.context, r.out.e)),
              calls |-> Append(r.calls, Invocation(input, self.context, r.out.e))]
        [] r.out.tag = "Failure" /\ r.calls = <<>> ->
             [out   |-> Err_Failure(add_context(r.out.e.ty, input, self.context, r.out.e)),
              calls |-> Append(r.calls, Invocation(input, self.context, r.out.e))]
        [] OTHER -> r

\* impl Parser<I> for Context<F>: fn process(&mut self, input).  The error mode's
\* map hands the error to the closure (OM::Error carries the error).  The value
\* is the outcome together with the add_context invocations made on the way.
Context_process(self, input) ==
  LET r == Parser_process(self.parser, input)       \* self.parser.process(input.clone())
  IN  CASE r.out.tag = "Error" ->
             [out   |-> Err_Error(add_context(r.out.e.ty, input, self.context, r.out.e)),
              calls |-> Append(r.calls, Invocation(input, self.context, r.out.e))]
        [] r.out.tag = "Failure" ->
             [out   |-> Err_Failure(add_context(r.out.e.ty, input, self.context, r.out.e)),
              calls |-> Append(r.calls, Invocation(input, self.context, r.out.e))]
        [] OTHER -> r                                \* x => x

\* F::process for the wrapped parser F
Parser_process(F, input) ==
  IF F.p = "context" THEN Context_process(F, input)
                     ELSE [out |-> F.returns, calls |-> <<>>]

----------------------------------------------------------------------------
\* Input domains
RECURSIVE Strings(_)
Strings(n) ==
  IF n = 0 THEN {""}
  ELSE LET S == Strings(n - 1) IN S \cup {s \o c : s \in S, c \in Alphabet}

Buffers == Strings(MaxLen)
Positions == 0 .. Len(buffer)
ElementRefs == 0 .. (Len(buffer) - 1)
KindSample == {k \in ErrorKind : k < MaxKinds}
KindsOf(E) == IF E = "Error" THEN ErrorKind ELSE KindSample
ForeignErrors == {"ParseIntError", "Utf8Error"}
NeededHints == 0 .. 1

\* The error values of type E a step or an alternation branch may report
Errors(E) ==
  CASE E = "Error"    -> {Error_new(p, k) : p \in Positions, k \in KindSample}
    [] E = "Tuple"    -> {Tuple_from_error_kind(p, k) : p \in Positions, k \in KindSample}
    [] E = "Unit"     -> {Unit_from_error_kind(0, Tag)}
    [] E = "CtxError" -> {[ty |-> "CtxError", input |-> p, ctx |-> c] :
                            p \in Positions, c \in {<<>>} \cup {<<l>> : l \in Labels}}

Outcomes(E) ==
       {Ok(p, o) : p \in Positions, o \in Alphabet}
  \cup {Err_Incomplete(n) : n \in NeededHints}
  \cup {Err_Error(e) : e \in Errors(E)}
  \cup {Err_Failure(e) : e \in Errors(E)}

\* Steps of error type E wrapped in at most n context combinators
RECURSIVE Wrapped(_, _)
Wrapped(E, n) ==
  IF n = 0 THEN {step(o) : o \in Outcomes(E)}
  ELSE LET W == Wrapped(E, n - 1) IN W \cup {context(l, w) : l \in Labels, w \in W}

\* An error is in flight: the last operation constructed or combined one
InFlight ==
  call.op \in {"from_error_kind", "make_error", "from_char", "from_external_error",
               "append", "append_error", "add_context", "or"}

Borrowed == InFlight /\ ret.ty = "Error"

----------------------------------------------------------------------------
Init ==
  /\ buffer \in Buffers
  /\ call = [op |-> "none"]
  /\ ret = Nothing
  /\ log = <<>>
  /\ origin = Nothing
  /\ hops = 0

\* No result is held: the caller consumed or discarded the last one
Idle == call.op = "none"

\* An operation was invoked as c and returned r
Returned(c, r) ==
  /\ call' = c
  /\ ret' = r
  /\ log' = <<>>
  /\ UNCHANGED buffer

FromErrorKind ==
  /\ Idle
  /\ \E E \in ErrTypes, p \in Positions : \E k \in KindsOf(E) :
    /\ Returned([op |-> "from_error_kind", E |-> E, input |-> p, kind |-> k],
                from_error_kind(E, p, k))
    /\ origin' = ret'
    /\ hops' = 0

MakeError ==
  /\ Idle
  /\ \E E \in ErrTypes, p \in Positions : \E k \in KindsOf(E) :
    /\ Returned([op |-> "make_error", E |-> E, input |-> p, kind |-> k],
                make_error(E, p, k))
    /\ origin' = ret'
    /\ hops' = 0

FromChar ==
  /\ Idle
  /\ \E E \in ErrTypes, p \in Positions, c \in Alphabet :
    /\ Returned([op |-> "from_char", E |-> E, input |-> p, c |-> c], from_char(E, p, c))
    /\ origin' = ret'
    /\ hops' = 0

FromExternalError ==
  /\ Idle
  /\ \E E \in ErrTypes \ {"CtxError"}, p \in Positions, k \in KindSample, f \in ForeignErrors :
    /\ Returned([op |-> "from_external_error", E |-> E, input |-> p, kind |-> k, e |-> f],
                from_external_error(E, p, k, f))
    /\ origin' = ret'
    /\ hops' = 0

\* An outer combinator records its own failure on top of the error in flight
AppendOp ==
  \E p \in Positions, k \in KindSample :
    /\ InFlight
    /\ hops < MaxHops
    /\ Returned([op |-> "append", input |-> p, kind |-> k, other |-> ret],
                append(ret.ty, p, k, ret))
    /\ hops' = hops + 1
    /\ UNCHANGED origin

AppendError ==
  \E p \in Positions, k \in KindSample :
    /\ InFlight
    /\ hops < MaxHops
    /\ Returned([op |-> "append_error", input |-> p, kind |-> k, other |-> ret],
                append_error(ret.ty, p, k, ret))
    /\ hops' = hops + 1
    /\ UNCHANGED origin

\* A label is attached to the error in flight
AddContext ==
  \E p \in Positions, l \in Labels :
    /\ InFlight
    /\ hops < MaxHops
    /\ Returned([op |-> "add_context", input |-> p, ctx |-> l, other |-> ret],
                add_context(ret.ty, p, l, ret))
    /\ hops' = hops + 1
    /\ UNCHANGED origin

\* An alternation tries one more branch, which fails with e2
OrOp ==
  /\ InFlight
  /\ hops < MaxHops
  /\ \E e2 \in Errors(ret.ty) :
       /\ Returned([op |-> "or", self |-> ret, other |-> e2], or(ret, e2))
       /\ origin' = e2
  /\ hops' = hops + 1

\* The caller renders the default error in flight
Fmt ==
  /\ Borrowed
  /\ Returned([op |-> "fmt", self |-> ret], Error_fmt(ret))
  /\ origin' = Nothing
  /\ hops' = 0

\* The caller detaches the default error in flight from the buffer; referent is
\* what its position referred to when the conversion ran
Cloned ==
  /\ Borrowed
  /\ Returned([op |-> "cloned", self |-> ret, referent |-> Slice(ret.input)],
              Error_cloned(ret))
  /\ origin' = Nothing
  /\ hops' = 0

From ==
  /\ Borrowed
  /\ Returned([op |-> "from", self |-> ret, referent |-> Slice(ret.input)],
              Error_from(ret))
  /\ origin' = Nothing
  /\ hops' = 0

\* The position of the error in flight is a reference to one element
Copied ==
  /\ Borrowed
  /\ ret.input \in ElementRefs
  /\ Returned([op |-> "copied", self |-> ret, referent |-> Deref(ret.input)],
              Error_copied(ret))
  /\ origin' = Nothing
  /\ hops' = 0

\* The borrowed buffer goes away while an owned error is still held
DropBuffer ==
  /\ call.op \in {"cloned", "from", "copied"}
  /\ buffer # ""
  /\ buffer' = ""
  /\ UNCHANGED <<call, ret, log, origin, hops>>

ErrorToU32 ==
  /\ Idle
  /\ \E k \in ErrorKind :
    /\ Returned([op |-> "error_to_u32", e |-> k], error_to_u32(k))
    /\ origin' = Nothing
    /\ hops' = 0

Description ==
  /\ Idle
  /\ \E k \in ErrorKind :
    /\ Returned([op |-> "description", self |-> k], description(k))
    /\ origin' = Nothing
    /\ hops' = 0

\* context(l, F) is run on position p
ContextParse ==
  /\ Idle
  /\ \E E \in ErrTypes, l \in Labels, p \in Positions :
    \E F \in Wrapped(E, MaxNest - 1) :
      LET r == Context_process(context(l, F), p)
      IN  /\ call' = [op |-> "process", context |-> l, parser |-> F, input |-> p]
          /\ ret' = r.out
          /\ log' = r.calls
          /\ origin' = Nothing
          /\ hops' = 0
          /\ UNCHANGED buffer

\* The caller consumes or discards the result
Consume ==
  /\ ~Idle
  /\ call' = [op |-> "none"]
  /\ ret' = Nothing
  /\ log' = <<>>
  /\ origin' = Nothing
  /\ hops' = 0
  /\ UNCHANGED buffer

Next ==
  \/ FromErrorKind
  \/ MakeError
  \/ FromChar
  \/ FromExternalError
  \/ AppendOp
  \/ AppendError
  \/ AddContext
  \/ OrOp
  \/ Fmt
  \/ Cloned
  \/ From
  \/ Copied
  \/ DropBuffer
  \/ ErrorToU32
  \/ Description
  \/ ContextParse
  \/ Consume

Spec == Init /\ [][Next]_vars

----------------------------------------------------------------------------
\* The outcome of the step wrapped by the context combinator run last
Inner == Parser_process(call.parser, call.input).out

\* C1: when the wrapped step returns a recoverable error e on position p,
\* context(l, step) returns a recoverable error carrying add_context(p, l, e),
\* p being the position handed to the combinator, and that is the invocation
\* it made last.
C1_ContextRecoverable ==
  (call.op = "process" /\ Inner.tag = "Error") =>
    /\ ret.tag = "Error"
    /\ ret.e = add_context(Inner.e.ty, call.input, call.context, Inner.e)
    /\ log # <<>>
    /\ log[Len(log)] = Invocation(call.input, call.context, Inner.e)

C1_Witness ==
  /\ call.op = "process"
  /\ call.parser.p = "step"
  /\ Inner.tag = "Error"
  /\ Inner.e.ty = "CtxError"
  /\ Inner.e.input # call.input
  /\ ret = Err_Error([ty |-> "CtxError", input |-> call.input, ctx |-> <<call.context>>])

\* C2: when the wrapped step returns an unrecoverable failure e on position p,
\* context(l, step) returns an unrecoverable failure, never a recoverable
\* error, carrying add_context(p, l, e).
C2_ContextUnrecoverable ==
  (call.op = "process" /\ Inner.tag = "Failure") =>
    /\ ret.tag = "Failure"
    /\ ret.e = add_context(Inner.e.ty, call.input, call.context, Inner.e)

C2_Witness ==
  /\ call.op = "process"
  /\ call.parser.p = "step"
  /\ Inner.tag = "Failure"
  /\ Inner.e.ty = "CtxError"
  /\ Inner.e.input # call.input
  /\ ret = Err_Failure([ty |-> "CtxError", input |-> call.input, ctx |-> <<call.context>>])

\* C3: when the wrapped step returns success or incomplete, context(l, step)
\* returns that very outcome and makes no add_context invocation.
C3_ContextPassThrough ==
  (call.op = "process" /\ Inner.tag \in {"Ok", "Incomplete"}) =>
    /\ ret = Inner
    /\ log = <<>>

C3_Witness ==
  /\ call.op = "process"
  /\ call.parser.p = "context"
  /\ ret.tag = "Ok"
  /\ ret.rest # call.input
  /\ log = <<>>

\* C4: error_to_u32 gives every variant of ErrorKind one code, and no two
\* variants the same code.
C4_CodeInjective ==
  call.op = "error_to_u32" =>
    /\ ret \in Nat
    /\ \A k \in ErrorKind : error_to_u32(k) = ret => k = call.e
    /\ Cardinality({error_to_u32(k) : k \in ErrorKind}) = Len(VariantNames)

C4_Witness == call.op = "error_to_u32" /\ call.e = BinDigit /\ ret = 78

\* C5: for the default error type, from_error_kind(pos, k) and make_error(pos, k)
\* return the record whose code is k and whose input is pos.
C5_FromErrorKind ==
  (call.op \in {"from_error_kind", "make_error"} /\ call.E = "Error") =>
    /\ ret.code = call.kind
    /\ ret.input = call.input

C5_Witness ==
  /\ call.op = "make_error"
  /\ call.E = "Error"
  /\ call.kind = Precedence
  /\ call.input = Len(buffer)
  /\ call.input > 0
  /\ ret = Error_new(call.input, Precedence)

\* C6: for the default error type, append and append_error return the previous
\* error unchanged, so the error in flight still carries the position and kind
\* it was first detected with.
C6_InnermostWins ==
  (call.op \in {"append", "append_error"} /\ call.other.ty = "Error") =>
    /\ ret = call.other
    /\ ret.input = origin.input
    /\ ret.code = origin.code

C6_Witness ==
  /\ call.op = "append_error"
  /\ call.other.ty = "Error"
  /\ hops >= 2
  /\ call.input # call.other.input
  /\ call.kind # call.other.code
  /\ ret = origin

\* C7: for the default error type, add_context returns the previous error
\* unchanged, so annotations leave its input and code as they were.
C7_OptOut ==
  (call.op = "add_context" /\ call.other.ty = "Error") =>
    /\ ret = call.other
    /\ ret = origin

C7_Witness ==
  /\ call.op = "add_context"
  /\ call.other.ty = "Error"
  /\ hops >= 2
  /\ call.input # call.other.input
  /\ ret = origin

\* C8: under the default or policy, E1.or(E2) is E2, so the error surfaced
\* after a run of failing branches is that of the branch tried last.
C8_LaterBranchWins ==
  call.op = "or" =>
    /\ ret = call.other
    /\ ret = origin

C8_Witness ==
  /\ call.op = "or"
  /\ call.self.ty = "Error"
  /\ call.self # call.other
  /\ hops >= 2
  /\ ret = call.other

\* C9: cloned, the From conversions and copied keep the code and turn the
\* borrowed position into an owned value equal to what the position referred
\* to, which stays so once the borrowed buffer is gone; they always return.
C9_OwnedKeepsContent ==
  call.op \in {"cloned", "from", "copied"} =>
    /\ ret.ty = "Error"
    /\ ret.code = call.self.code
    /\ ret.input = call.referent

C9_Witness ==
  /\ call.op = "cloned"
  /\ call.self.input > 0
  /\ buffer = ""
  /\ Len(ret.input) > 0
  /\ ret.code # Tag

\* C10 as stated: the rendering is "error: ", the description of the kind,
\* " at: " and the position.
C10_RendersDescription ==
  call.op = "fmt" =>
    ret = "error: " \o description(call.self.code) \o " at: "
            \o SubSeq(buffer, call.self.input + 1, Len(buffer))

\* C10, amended: the rendering is "error ", the identifier of the kind's
\* variant (its Debug form), " at: " and the position.
C10_RendersVariantName ==
  call.op = "fmt" =>
    ret = "error " \o VariantNames[call.self.code + 1] \o " at: "
            \o SubSeq(buffer, call.self.input + 1, Len(buffer))

C10_Witness ==
  /\ call.op = "fmt"
  /\ call.self.code = MapRes
  /\ buffer = "ab"
  /\ call.self.input = 1
  /\ ret = "error MapRes at: b"

\* C11: for the default error type, from_external_error(pos, k, foreign) returns
\* the record with input pos and code k whatever the foreign error is: it is
\* from_error_kind(pos, k), and every other foreign error gives the same record.
C11_ForeignErrorDropped ==
  (call.op = "from_external_error" /\ call.E = "Error") =>
    /\ ret.input = call.input
    /\ ret.code = call.kind
    /\ ret = Error_from_error_kind(call.input, call.kind)
    /\ \A f \in ForeignErrors : Error_from_external_error(call.input, call.kind, f) = ret

C11_Witness ==
  /\ call.op = "from_external_error"
  /\ call.E = "Error"
  /\ call.e = "Utf8Error"
  /\ call.kind = MapRes
  /\ call.input > 0
  /\ ret = Error_new(call.input, MapRes)

\* C12: description gives every variant of ErrorKind one text, and no two
\* variants the same text.
C12_DescriptionInjective ==
  call.op = "description" =>
    /\ Len(ret) > 0
    /\ \A k \in ErrorKind : description(k) = ret => k = call.self
    /\ Cardinality({description(k) : k \in ErrorKind}) = Len(VariantNames)

C12_Witness == call.op = "description" /\ call.self = ManyMN /\ ret = "Many(m, n)"

\* C13: context(l_outer, context(l_inner, step)) run on p, the step failing
\* (error or failure) with e, returns the same status carrying
\* add_context(p, l_outer, add_context(p, l_inner, e)); add_context is invoked
\* once per combinator, for the inner label first and the outer label last, so
\* the labels in invocation order are <<l_inner, l_outer>>.
C13_NestedInsideOut ==
  (/\ call.op = "process"
   /\ call.parser.p = "context"
   /\ call.parser.parser.p = "step"
   /\ call.parser.parser.returns.tag \in {"Error", "Failure"}) =>
    LET failed  == call.parser.parser.returns
        e       == failed.e
        l_inner == call.parser.context
        l_outer == call.context
        inner   == add_context(e.ty, call.input, l_inner, e)
    IN  /\ ret.tag = failed.tag
        /\ ret.e = add_context(e.ty, call.input, l_outer, inner)
        /\ log = <<Invocation(call.input, l_inner, e), Invocation(call.input, l_outer, inner)>>
        /\ [i \in 1 .. Len(log) |-> log[i].ctx] = <<l_inner, l_outer>>

C13_Witness ==
  /\ call.op = "process"
  /\ call.parser = context("ctx", step(Err_Failure([ty |-> "CtxError", input |-> 0, ctx |-> <<>>])))
  /\ call.context = "outer"
  /\ call.input = 1
  /\ ret = Err_Failure([ty |-> "CtxError", input |-> 1, ctx |-> <<"outer">>])
  /\ Len(log) = 2
  /\ log[1].ctx = "ctx"
  /\ log[2].other = [ty |-> "CtxError", input |-> 1, ctx |-> <<"ctx">>]
====
